---------------------------- MODULE Spec2Model ----------------------------
(***************************************************************************)
(* Model of src/Analizador-funciones/src/main.py: the function-analysis    *)
(* engine (compute_domain, compute_intersections, compute_range,           *)
(* evaluate_point, sample_function) and the AnalizadorGUI session state.   *)
(*                                                                         *)
(* Numbers.  An argument x is an exact rational num/den (or the floats inf *)
(* and nan).  A value computed by the symbolic library is classified by    *)
(* kind (real, huge, oo, nan, zoo, complex); a real value is kept in fixed *)
(* point, floor(value * YS).  A Python float is fin (fixed point), inf or  *)
(* nan.  The results of the library's solvers are tabulated per            *)
(* expression; whether a library call raises is an input of the call.     *)
(***************************************************************************)
EXTENDS Integers, Sequences, FiniteSets, TLC

\* ------------------------------------------------------------------ bounds
\* x_min and x_max of sample_function range over -XB..XB grid units.
XB == 3
\* n_points ranges over -1..MaxN.
MaxN == 3
\* A grid unit is 1/(TolInv*SubDiv): SubDiv grid units make the tolerance.
SubDiv == 2
\* Values are kept with YDigits decimal digits after the point.
YDigits == 2
\* evaluate_point is tried at the integers -MaxXVal..MaxXVal, inf and nan.
MaxXVal == 2

\* --------------------------------------------------------- program constants
\* the tolerance 1e-2 of sample_function, as its inverse
TolInv == 100
\* compute_range samples range(-50, 51, 2)
RangeLo == -50
RangeHi == 50
RangeStep == 2
\* "{:.4g}": four significant digits
SigDigits == 4
\* on_plot samples x_min=-10, x_max=10, n_points=800
PlotXMin == -10
PlotXMax == 10
PlotPoints == 800

RECURSIVE Pow10(_)
Pow10(n) == IF n = 0 THEN 1 ELSE 10 * Pow10(n - 1)

YS == Pow10(YDigits)
XU == TolInv * SubDiv
\* Lists longer than any terminating run of the model can produce are cut here.
MaxPts == MaxN + 2

Abs(a) == IF a < 0 THEN -a ELSE a
Max2(a, b) == IF a >= b THEN a ELSE b

RECURSIVE ISqrtBetween(_, _, _)
ISqrtBetween(lo, hi, a) ==
    IF lo >= hi THEN lo
    ELSE LET mid == (lo + hi + 1) \div 2
         IN  IF mid * mid <= a THEN ISqrtBetween(mid, hi, a)
                               ELSE ISqrtBetween(lo, mid - 1, a)
RECURSIVE SqrtAbove(_, _)
SqrtAbove(h, a) == IF h * h > a THEN h ELSE SqrtAbove(2 * h, a)
\* floor(sqrt(a)) for a >= 0
ISqrt(a) == ISqrtBetween(0, SqrtAbove(1, a), a)

\* ------------------------------------------------------------- expressions
\* The expressions whose numeric value the model computes, by their sympy text.
NumExprs == {"x + 1", "1/x", "sqrt(x)", "exp(1000000*x)", "(x**3 + 8)/x",
             "sqrt(-x**2 - 1)", "1/(x**2 - 4)", "x**2 + 1"}
\* The expressions of which only the structure and the solutions are modelled.
SymExprs == {"log(x - 1)", "1/(x**2 + 1)", "log(x)/x", "1/sqrt(x)",
             "log(x)/sqrt(x)", "sqrt(x) + log(x)", "x**(1/3)", "x**x"}
Exprs == NumExprs \cup SymExprs

Fin(n, d) == [k |-> "fin", num |-> n, den |-> d]
XInf == [k |-> "inf", num |-> 0, den |-> 1]
XNan == [k |-> "nan", num |-> 0, den |-> 1]

Sym(kind, val) == [k |-> kind, v |-> val]
Real(val) == Sym("real", val)

\* sp.N(expr.subs(x, v)): the kind and the value of expr at the argument v.
\* exp(1000000*x) leaves the float range at every positive x >= 1/1400 and
\* is below the least positive float at every negative x <= -1/1400.
Eval(e, a) ==
    IF a.k = "nan" THEN Sym("nan", 0)
    ELSE CASE e = "x + 1" ->
                IF a.k = "inf" THEN Sym("oo", 0)
                ELSE Real(((a.num + a.den) * YS) \div a.den)
           [] e = "1/x" ->
                IF a.k = "inf" THEN Real(0)
                ELSE IF a.num = 0 THEN Sym("zoo", 0)
                ELSE IF a.num > 0 THEN Real((a.den * YS) \div a.num)
                ELSE Real(((0 - a.den) * YS) \div (0 - a.num))
           [] e = "sqrt(x)" ->
                IF a.k = "inf" THEN Sym("oo", 0)
                ELSE IF a.num < 0 THEN Sym("complex", 0)
                ELSE Real(ISqrt((a.num * YS * YS) \div a.den))
           [] e = "exp(1000000*x)" ->
                IF a.k = "inf" THEN Sym("oo", 0)
                ELSE IF a.num = 0 THEN Real(YS)
                ELSE IF a.num < 0 THEN Real(0)
                ELSE Sym("huge", 0)
           [] e = "(x**3 + 8)/x" ->
                IF a.k = "inf" THEN Sym("oo", 0)
                ELSE IF a.num = 0 THEN Sym("zoo", 0)
                ELSE LET n == a.num * a.num * a.num + 8 * a.den * a.den * a.den
                         d == a.num * a.den * a.den
                     IN  IF d > 0 THEN Real((n * YS) \div d)
                         ELSE Real(((0 - n) * YS) \div (0 - d))
           [] e = "sqrt(-x**2 - 1)" -> Sym("complex", 0)
           [] e = "1/(x**2 - 4)" ->
                IF a.k = "inf" THEN Real(0)
                ELSE LET d == a.num * a.num - 4 * a.den * a.den
                     IN  IF d = 0 THEN Sym("zoo", 0)
                         ELSE IF d > 0 THEN Real((a.den * a.den * YS) \div d)
                         ELSE Real(((0 - a.den * a.den) * YS) \div (0 - d))
           [] e = "x**2 + 1" ->
                IF a.k = "inf" THEN Sym("oo", 0)
                ELSE Real(((a.num * a.num + a.den * a.den) * YS) \div (a.den * a.den))
           [] OTHER -> Sym("complex", 0)

\* yv.is_real
is_real(yv) == yv.k \in {"real", "huge"}

NoFloat == [k |-> "None", v |-> 0]
\* float(yv): a finite float, inf, nan, or (raised) a TypeError
float_raises(yv) == yv.k \in {"zoo", "complex"}
float(yv) ==
    CASE yv.k = "real" -> [k |-> "fin", v |-> yv.v]
      [] yv.k \in {"huge", "oo"} -> [k |-> "inf", v |-> 0]
      [] yv.k = "nan" -> [k |-> "nan", v |-> 0]
      [] OTHER -> NoFloat

\* math.isfinite
isfinite(f) == f.k = "fin"

\* A solution returned by sp.solve: its real part, the rational num/den, and
\* the sign of its imaginary part.
Sol(n, d, i) == [num |-> n, den |-> d, im |-> i]


\* ------------------------------------------------------------------- state
VARIABLES
    \* sample_function: its arguments, its locals, its position and the
    \* parity of the number of loop iterations made
    s_expr, s_exceptions, x_min, x_max, n_points, cur, xs, ys, pc, iter,
    \* one call of an engine function: arguments, which library calls raise,
    \* the function called and what it returned
    f_expr, f_xval, f_fail, f_call, f_ret,
    \* AnalizadorGUI: the entry widgets, the session fields, the axes, what
    \* the canvas last drew, what the last handler did, and whether the last
    \* parse of on_analyze failed (the text widget and the message boxes are
    \* write-only and are left out)
    func_entry, x_entry, parsed_expr, domain_exceptions, x_eval_point, ax,
    canvas, last, parse_failed

sample_vars == <<s_expr, s_exceptions, x_min, x_max, n_points, cur, xs, ys, pc, iter>>
engine_vars == <<f_expr, f_xval, f_fail, f_call, f_ret>>
gui_vars == <<func_entry, x_entry, parsed_expr, domain_exceptions, x_eval_point,
              ax, canvas, last, parse_failed>>
vars == <<sample_vars, engine_vars, gui_vars>>

\* --------------------------------------------------------- sample_function
\* max(1, n_points)
Steps(n) == Max2(1, n)
\* cur, x_min, x_max and step are kept as numerators over GridDen(n_points):
\* step = (x_max - x_min) / max(1, n_points), with x_min, x_max in grid units.
GridDen(n) == XU * Steps(n)
step == x_max - x_min

\* abs(cur - sval) < 1e-2, for cur = c/D and sval = s.num/s.den
near_mut(c, D, s) == c * s.den = s.num * D
near(c, D, s) == Abs(c * s.den - s.num * D) * TolInv < D * s.den

\* float(sp.N(s)) raises for a value that is not real
sval_raises(s) == s.im # 0

\* the for loop over domain_exceptions: skip is set at the first exclusion
\* that converts and is near cur; one that does not convert is passed over
RECURSIVE skip_scan(_, _, _, _)
skip_scan(excs, i, c, D) ==
    IF i > Len(excs) THEN FALSE
    ELSE IF sval_raises(excs[i]) THEN skip_scan(excs, i + 1, c, D)
    ELSE IF near(c, D, excs[i]) THEN TRUE
    ELSE skip_scan(excs, i + 1, c, D)
skip(excs, c, D) == skip_scan(excs, 1, c, D)

\* the point is appended: yv.is_real and math.isfinite(float(yv))
keeps_mut(e, c, D) == TRUE
keeps(e, c, D) ==
    LET yv == Eval(e, Fin(c, D))
    IN  is_real(yv) /\ ~float_raises(yv) /\ isfinite(float(yv))

\* xs.append / ys.append
append(l, v) == IF Len(l) < MaxPts THEN Append(l, v) ELSE l

SampleExprs == {"x + 1", "1/x", "sqrt(x)", "exp(1000000*x)"}
ExcVals == {Sol(0, 1, 0), Sol(1, XU, 0), Sol(0, 1, 1)}
ExcLists == {<<>>} \cup {<<a>> : a \in ExcVals}
                   \cup {<<a, b>> : a \in ExcVals, b \in ExcVals}

SampleInit ==
    /\ s_expr \in SampleExprs
    /\ s_exceptions \in ExcLists
    /\ x_min \in -XB..XB
    /\ x_max \in -XB..XB
    /\ n_points \in -1..MaxN
    /\ cur = x_min * Steps(n_points)
    /\ xs = <<>>
    /\ ys = <<>>
    /\ pc = "loop"
    /\ iter = 0

InLoop == pc = "loop" /\ cur <= x_max * Steps(n_points)

\* an iteration whose point is near an exclusion
SampleSkip ==
    /\ InLoop
    /\ skip(s_exceptions, cur, GridDen(n_points))
    /\ cur' = cur + step
    /\ iter' = 1 - iter
    /\ UNCHANGED <<s_expr, s_exceptions, x_min, x_max, n_points, xs, ys, pc>>

\* an iteration whose point is appended
SampleKeep ==
    /\ InLoop
    /\ ~skip(s_exceptions, cur, GridDen(n_points))
    /\ keeps(s_expr, cur, GridDen(n_points))
    /\ xs' = append(xs, cur)
    /\ ys' = append(ys, float(Eval(s_expr, Fin(cur, GridDen(n_points)))))
    /\ cur' = cur + step
    /\ iter' = 1 - iter
    /\ UNCHANGED <<s_expr, s_exceptions, x_min, x_max, n_points, pc>>

\* an iteration whose value raises, is not real or is not finite
SampleDrop ==
    /\ InLoop
    /\ ~skip(s_exceptions, cur, GridDen(n_points))
    /\ ~keeps(s_expr, cur, GridDen(n_points))
    /\ cur' = cur + step
    /\ iter' = 1 - iter
    /\ UNCHANGED <<s_expr, s_exceptions, x_min, x_max, n_points, xs, ys, pc>>

\* while cur <= x_max fails: return xs, ys
SampleReturn ==
    /\ pc = "loop"
    /\ cur > x_max * Steps(n_points)
    /\ pc' = "done"
    /\ UNCHANGED <<s_expr, s_exceptions, x_min, x_max, n_points, cur, xs, ys, iter>>

\* ------------------------------------------------- the library's results
\* sp.solve(sp.Eq(t, 0), x), for the expressions and denominators t it is
\* called on.  The complex cube roots of -8 are 1 +/- sqrt(3)*I.
solve(t) ==
    CASE t = "x" -> <<Sol(0, 1, 0)>>
      [] t = "x + 1" -> <<Sol(-1, 1, 0)>>
      [] t = "sqrt(x)" -> <<Sol(0, 1, 0)>>
      [] t = "(x**3 + 8)/x" -> <<Sol(-2, 1, 0), Sol(1, 1, -1), Sol(1, 1, 1)>>
      [] t = "x**2 - 4" -> <<Sol(-2, 1, 0), Sol(2, 1, 0)>>
      [] t = "x**2 + 1" -> <<Sol(0, 1, -1), Sol(0, 1, 1)>>
      [] t = "sqrt(-x**2 - 1)" -> <<Sol(0, 1, -1), Sol(0, 1, 1)>>
      [] OTHER -> <<>>

\* sp.fraction(sp.simplify(expr))[1]
fraction_den(e) ==
    CASE e \in {"1/x", "(x**3 + 8)/x"} -> "x"
      [] e = "1/(x**2 - 4)" -> "x**2 - 4"
      [] e = "1/(x**2 + 1)" -> "x**2 + 1"
      [] e = "log(x)/x" -> "x"
      [] e = "1/sqrt(x)" -> "sqrt(x)"
      [] e = "log(x)/sqrt(x)" -> "sqrt(x)"
      [] OTHER -> "1"

\* expr.atoms(sp.log): the argument of each logarithm
log_atoms(e) ==
    CASE e = "log(x - 1)" -> <<"x - 1">>
      [] e \in {"log(x)/x", "log(x)/sqrt(x)", "sqrt(x) + log(x)"} -> <<"x">>
      [] OTHER -> <<>>

PowAtom(b, r, d) == [base |-> b, is_Rational |-> r, q |-> d]
\* expr.atoms(sp.Pow): base, whether the exponent is rational, its denominator
pow_atoms(e) ==
    CASE e \in {"1/x", "x**2 + 1", "log(x)/x"} -> <<PowAtom("x", TRUE, 1)>>
      [] e = "(x**3 + 8)/x" -> <<PowAtom("x", TRUE, 1), PowAtom("x", TRUE, 1)>>
      [] e \in {"sqrt(x)", "1/sqrt(x)", "log(x)/sqrt(x)", "sqrt(x) + log(x)"} ->
            <<PowAtom("x", TRUE, 2)>>
      [] e = "sqrt(-x**2 - 1)" -> <<PowAtom("-x**2 - 1", TRUE, 2), PowAtom("x", TRUE, 1)>>
      [] e = "1/(x**2 - 4)" -> <<PowAtom("x**2 - 4", TRUE, 1), PowAtom("x", TRUE, 1)>>
      [] e = "1/(x**2 + 1)" -> <<PowAtom("x**2 + 1", TRUE, 1), PowAtom("x", TRUE, 1)>>
      [] e = "x**(1/3)" -> <<PowAtom("x", TRUE, 3)>>
      [] e = "x**x" -> <<PowAtom("x", FALSE, 0)>>
      [] OTHER -> <<>>

\* [s for s in sols if sp.im(s) == 0]
real_sols(sols) == SelectSeq(sols, LAMBDA s : s.im = 0)

Range(l) == {l[i] : i \in 1..Len(l)}

\* The library calls that may raise, by the place that makes them.
DomainFails == {"den", "canon", "logs", "roots", "format"}
IntersectionFails == {"subs0", "solve"}
RangeFails == {"function_range"}
EvaluateFails == {"evaluate"}

Raised == [raised |-> TRUE]

\* ---------------------------------------------------------- compute_domain
find_denominator_singularities(e, fl) ==
    IF "den" \in fl THEN <<>>
    ELSE IF fraction_den(e) = "1" THEN <<>>
    ELSE real_sols(solve(fraction_den(e)))

Constraint(l, r) == [lhs |-> l, rel |-> ">", rhs |-> r]

find_log_constraints(e) ==
    [i \in 1..Len(log_atoms(e)) |-> Constraint(log_atoms(e)[i], "0")]

find_even_root_problems(e) ==
    LET even == SelectSeq(pow_atoms(e), LAMBDA p : p.is_Rational /\ p.q % 2 = 0)
    IN  [i \in 1..Len(even) |-> Constraint(even[i].base, "-oo")]

Clause(c, vs) == [clause |-> c, values |-> vs]
ExceptClause(excs) == Clause("excepto x = ", excs)
LogClause == Clause("y ademas los argumentos de log deben ser > 0", {})
RootClause == Clause("y cuidar raices de indice par (radicandos >= 0)", {})
PlainDesc == [head |-> "Dominio: todos los reales", parts |-> <<>>]

\* the description, from the exclusions and the two constraint lists
describe_mut(excs, logs, roots) ==
    IF excs # {} \/ logs # <<>>
    THEN [head |-> "Dominio: todos los reales, ",
          parts |-> (IF excs # {} THEN <<ExceptClause(excs)>> ELSE <<>>)
                    \o (IF logs # <<>> THEN <<LogClause>> ELSE <<>>)]
    ELSE PlainDesc
describe(excs, logs, roots) ==
    IF excs # {} \/ logs # <<>> \/ roots # <<>>
    THEN [head |-> "Dominio: todos los reales, ",
          parts |-> (IF excs # {} THEN <<ExceptClause(excs)>> ELSE <<>>)
                    \o (IF logs # <<>> THEN <<LogClause>> ELSE <<>>)
                    \o (IF roots # <<>> THEN <<RootClause>> ELSE <<>>)]
    ELSE PlainDesc

\* Only find_denominator_singularities catches what its library calls raise.
compute_domain(e, fl) ==
    LET den_sing == find_denominator_singularities(e, fl)
        excs == Range(den_sing)
    IN  IF den_sing # <<>> /\ "canon" \in fl THEN Raised
        ELSE IF "logs" \in fl THEN Raised
        ELSE IF "roots" \in fl THEN Raised
        ELSE IF excs # {} /\ "format" \in fl THEN Raised
        ELSE [raised |-> FALSE,
              desc |-> describe(excs, find_log_constraints(e), find_even_root_problems(e)),
              exceptions |-> excs,
              logs |-> find_log_constraints(e),
              roots |-> find_even_root_problems(e)]

\* --------------------------------------------------- compute_intersections
NoValue == Sym("None", 0)

\* sp.simplify(expr.subs(x, 0))
y_at_0(e) == Eval(e, Fin(0, 1))

compute_intersections(e, fl) ==
    IF "subs0" \in fl \/ "solve" \in fl
    THEN [raised |-> FALSE, y_at_0 |-> NoValue, real_roots |-> <<>>]
    ELSE [raised |-> FALSE, y_at_0 |-> y_at_0(e), real_roots |-> real_sols(solve(e))]


\* ----------------------------------------------------------- compute_range
\* list(range(-50, 51, 2))
RangeXs == {v \in RangeLo..RangeHi : (v - RangeLo) % RangeStep = 0}

\* the sample at val is appended to ys: float() does not raise and the
\* float is finite
sample_ok(e, val) ==
    LET yv == Eval(e, Fin(val, 1))
    IN  ~float_raises(yv) /\ isfinite(float(yv))

\* ys, as the set of its values
range_ys(e) == {float(Eval(e, Fin(val, 1))).v : val \in {w \in RangeXs : sample_ok(e, w)}}

SetMin(S) == CHOOSE m \in S : \A o \in S : m <= o
SetMax(S) == CHOOSE m \in S : \A o \in S : m >= o

RECURSIVE Digits(_)
Digits(a) == IF a < 10 THEN 1 ELSE 1 + Digits(a \div 10)

\* a >= 0 rounded to SigDigits significant digits, ties to even
round_sig(a) ==
    IF Digits(a) <= SigDigits THEN a
    ELSE LET p == Pow10(Digits(a) - SigDigits)
             q == a \div p
             r == a % p
         IN  IF 2 * r > p \/ (2 * r = p /\ q % 2 = 1) THEN (q + 1) * p ELSE q * p

\* f"{v:.4g}", as the number the text denotes
fmt4g_mut(v) == v
fmt4g(v) == IF v < 0 THEN 0 - round_sig(0 - v) ELSE round_sig(v)

compute_range(e, fl) ==
    IF "function_range" \notin fl
    THEN [raised |-> FALSE, kind |-> "exact", lo |-> 0, hi |-> 0]
    ELSE IF range_ys(e) # {}
    THEN [raised |-> FALSE, kind |-> "aprox",
          lo |-> fmt4g(SetMin(range_ys(e))), hi |-> fmt4g(SetMax(range_ys(e)))]
    ELSE [raised |-> FALSE, kind |-> "No se pudo estimar el recorrido", lo |-> 0, hi |-> 0]

\* ---------------------------------------------------------- evaluate_point
NoErr == [some |-> FALSE, msg |-> ""]
Err(m) == [some |-> TRUE, msg |-> m]

evaluate_error(m) ==
    [raised |-> FALSE, steps |-> <<"Error en evaluacion: ">>, numeric |-> NoFloat,
     err |-> Err(m)]

evaluate_point(e, x_val, fl) ==
    IF "evaluate" \in fl THEN evaluate_error("library error")
    ELSE IF float_raises(Eval(e, x_val))
    THEN evaluate_error("Cannot convert complex to float")
    ELSE [raised |-> FALSE,
          steps |-> <<"Expresion original: ", "Sustituyendo x = ", "Calculo numerico: ">>,
          numeric |-> float(Eval(e, x_val)),
          err |-> NoErr]

\* ------------------------------------------------------------ AnalizadorGUI
\* What the user may type in the two entries.
FuncTexts == {"", "x+*", " x+1 ", "1/x", "sqrt(-x**2-1)"}
XTexts == {"", "abc", " 2 ", "inf"}

\* str.strip()
strip(t) ==
    CASE t = " x+1 " -> "x+1"
      [] t = " 2 " -> "2"
      [] OTHER -> t

\* safe_sympify: (expr, None), or (None, message) for text sympify rejects
safe_sympify(t) ==
    CASE t = "x+1" -> [expr |-> "x + 1", err |-> NoErr]
      [] t = "1/x" -> [expr |-> "1/x", err |-> NoErr]
      [] t = "sqrt(-x**2-1)" -> [expr |-> "sqrt(-x**2 - 1)", err |-> NoErr]
      [] OTHER -> [expr |-> "None", err |-> Err("could not parse")]

\* float(x_text): the number, or (raised) a ValueError
float_text_raises(t) == t \notin {"2", "inf"}
float_text(t) == IF t = "2" THEN Fin(2, 1) ELSE XInf

NoPoint == [set |-> FALSE, x |-> Fin(0, 1), y |-> NoFloat]
Point(xv, yv) == [set |-> TRUE, x |-> xv, y |-> yv]
\* ax.clear()
ClearAx == [curve |-> "None", vlines |-> {}, point |-> NoPoint]

\* a list of the set, in the order the handler walks it
RECURSIVE SeqOf(_)
SeqOf(S) == IF S = {} THEN <<>>
            ELSE LET a == CHOOSE b \in S : TRUE IN <<a>> \o SeqOf(S \ {a})

\* sample_function(parsed_expr, domain_exceptions, -10, 10, 800) returns a
\* point: some step of the grid is neither skipped nor dropped
plot_samples(e, excs) ==
    \E i \in 0..PlotPoints :
        LET c == PlotXMin * PlotPoints + i * (PlotXMax - PlotXMin)
        IN  /\ ~skip(SeqOf(excs), c, PlotPoints)
            /\ keeps(e, c, PlotPoints)
\* the same, computed once for the sessions the window can hold
GuiExprs == {safe_sympify(strip(t)).expr : t \in FuncTexts} \ {"None"}
GuiExceptions == {{}} \cup {compute_domain(e, {}).exceptions : e \in GuiExprs}
SampleTable == [e \in GuiExprs, d \in GuiExceptions |-> plot_samples(e, d)]
has_samples(e, excs) == SampleTable[e, excs]

\* The session a handler works on, and what it has done so far: raised when
\* an exception left the handler, curve and point when it drew the curve and
\* set x_eval_point.
Session == [parsed_expr |-> parsed_expr, domain_exceptions |-> domain_exceptions,
            x_eval_point |-> x_eval_point, ax |-> ax, canvas |-> canvas,
            parse_failed |-> parse_failed,
            raised |-> FALSE, curve |-> FALSE, point |-> FALSE]

on_analyze(g, fl) ==
    LET expr_str == strip(func_entry)
        p == safe_sympify(expr_str)
    IN  IF expr_str = "" THEN g
        ELSE IF p.err.some THEN [g EXCEPT !.parse_failed = TRUE]
        ELSE LET d == compute_domain(p.expr, fl)
             IN  IF d.raised
                 THEN [g EXCEPT !.parsed_expr = p.expr, !.parse_failed = FALSE,
                                !.raised = TRUE]
                 ELSE [g EXCEPT !.parsed_expr = p.expr, !.parse_failed = FALSE,
                                !.domain_exceptions = d.exceptions]

\* on_plot from "self.ax.clear()" on
draw(g) ==
    IF ~has_samples(g.parsed_expr, g.domain_exceptions)
    THEN [g EXCEPT !.ax = ClearAx]
    ELSE LET shown == [curve |-> g.parsed_expr,
                       vlines |-> {s \in g.domain_exceptions : ~sval_raises(s)},
                       point |-> g.x_eval_point]
         IN  [g EXCEPT !.ax = shown, !.canvas = shown, !.curve = TRUE]

on_plot(g, fl) ==
    LET g1 == IF g.parsed_expr = "None" THEN on_analyze(g, fl) ELSE g
    IN  IF g1.raised \/ g1.parsed_expr = "None" THEN g1 ELSE draw(g1)

on_evaluate(g, fl) ==
    LET g1 == IF g.parsed_expr = "None" THEN on_analyze(g, fl) ELSE g
        x_text == strip(x_entry)
    IN  IF g1.raised \/ g1.parsed_expr = "None" THEN g1
        ELSE IF x_text = "" \/ float_text_raises(x_text) THEN g1
        ELSE LET r == evaluate_point(g1.parsed_expr, float_text(x_text), fl)
             IN  IF r.err.some /\ r.err.msg # "" THEN g1
                 ELSE on_plot([g1 EXCEPT !.x_eval_point = Point(float_text(x_text), r.numeric),
                                         !.point = TRUE], fl)

on_clear(g) ==
    [g EXCEPT !.ax = ClearAx, !.canvas = ClearAx, !.parsed_expr = "None",
              !.domain_exceptions = {}]


\* In the window only evaluate_point meets arguments its library calls reject.
GuiFails == {{}, {"evaluate"}}

GuiIdle ==
    /\ func_entry = "" /\ x_entry = "" /\ parsed_expr = "None"
    /\ domain_exceptions = {} /\ x_eval_point = NoPoint /\ ax = ClearAx
    /\ canvas = ClearAx /\ parse_failed = FALSE
    /\ last = [handler |-> "none", curve |-> FALSE, point |-> FALSE, raised |-> FALSE]

\* the fields as the handler h leaves them
Apply(g, h) ==
    /\ parsed_expr' = g.parsed_expr
    /\ domain_exceptions' = g.domain_exceptions
    /\ x_eval_point' = g.x_eval_point
    /\ ax' = g.ax
    /\ canvas' = g.canvas
    /\ parse_failed' = g.parse_failed
    /\ last' = [handler |-> h, curve |-> g.curve, point |-> g.point, raised |-> g.raised]

TypeFunction ==
    /\ \E t \in FuncTexts : func_entry' = t
    /\ UNCHANGED <<x_entry, parsed_expr, domain_exceptions, x_eval_point, ax, canvas,
                   last, parse_failed>>

TypeX ==
    /\ \E t \in XTexts : x_entry' = t
    /\ UNCHANGED <<func_entry, parsed_expr, domain_exceptions, x_eval_point, ax, canvas,
                   last, parse_failed>>

OnAnalyze ==
    /\ \E fl \in GuiFails : Apply(on_analyze(Session, fl), "on_analyze")
    /\ UNCHANGED <<func_entry, x_entry>>

OnEvaluate ==
    /\ \E fl \in GuiFails : Apply(on_evaluate(Session, fl), "on_evaluate")
    /\ UNCHANGED <<func_entry, x_entry>>

OnPlot ==
    /\ \E fl \in GuiFails : Apply(on_plot(Session, fl), "on_plot")
    /\ UNCHANGED <<func_entry, x_entry>>

OnClear ==
    /\ Apply(on_clear(Session), "on_clear")
    /\ func_entry' = ""
    /\ x_entry' = ""

\* ------------------------------------------- one call of an engine function
XVals == {Fin(v, 1) : v \in -MaxXVal..MaxXVal} \cup {XInf, XNan}

SampleIdle ==
    /\ s_expr = "x + 1" /\ s_exceptions = <<>> /\ x_min = 0 /\ x_max = 0
    /\ n_points = 0 /\ cur = 0 /\ xs = <<>> /\ ys = <<>> /\ pc = "idle"
    /\ iter = 0

EngineIdle ==
    /\ f_expr = "x + 1" /\ f_xval = Fin(0, 1) /\ f_fail = {} /\ f_call = "idle"
    /\ f_ret = [raised |-> FALSE]

EngineInit ==
    /\ f_expr \in Exprs
    /\ f_xval \in XVals
    /\ f_fail = {}
    /\ f_call = "none"
    /\ f_ret = [raised |-> FALSE]

CallComputeDomain ==
    /\ f_call = "none"
    /\ \E fl \in SUBSET DomainFails :
          /\ f_fail' = fl
          /\ f_ret' = compute_domain(f_expr, fl)
    /\ f_call' = "compute_domain"
    /\ UNCHANGED <<f_expr, f_xval>>

CallComputeIntersections ==
    /\ f_call = "none"
    /\ f_expr \in NumExprs
    /\ \E fl \in SUBSET IntersectionFails :
          /\ f_fail' = fl
          /\ f_ret' = compute_intersections(f_expr, fl)
    /\ f_call' = "compute_intersections"
    /\ UNCHANGED <<f_expr, f_xval>>

CallComputeRange ==
    /\ f_call = "none"
    /\ f_expr \in NumExprs
    /\ \E fl \in SUBSET RangeFails :
          /\ f_fail' = fl
          /\ f_ret' = compute_range(f_expr, fl)
    /\ f_call' = "compute_range"
    /\ UNCHANGED <<f_expr, f_xval>>

CallEvaluatePoint ==
    /\ f_call = "none"
    /\ f_expr \in NumExprs
    /\ \E fl \in SUBSET EvaluateFails :
          /\ f_fail' = fl
          /\ f_ret' = evaluate_point(f_expr, f_xval, fl)
    /\ f_call' = "evaluate_point"
    /\ UNCHANGED <<f_expr, f_xval>>


\* --------------------------------------------------------- specifications
\* The engine functions, each called once on drawn arguments.
Init == EngineInit /\ SampleIdle /\ GuiIdle
Next ==
    \/ CallComputeDomain /\ UNCHANGED <<sample_vars, gui_vars>>
    \/ CallComputeIntersections /\ UNCHANGED <<sample_vars, gui_vars>>
    \/ CallComputeRange /\ UNCHANGED <<sample_vars, gui_vars>>
    \/ CallEvaluatePoint /\ UNCHANGED <<sample_vars, gui_vars>>
Spec == Init /\ [][Next]_vars

\* sample_function, one loop iteration at a time.
SampleStart == SampleInit /\ EngineIdle /\ GuiIdle
SampleNext ==
    \/ SampleSkip /\ UNCHANGED <<engine_vars, gui_vars>>
    \/ SampleKeep /\ UNCHANGED <<engine_vars, gui_vars>>
    \/ SampleDrop /\ UNCHANGED <<engine_vars, gui_vars>>
    \/ SampleReturn /\ UNCHANGED <<engine_vars, gui_vars>>
SampleSpec == SampleStart /\ [][SampleNext]_vars
\* The interpreter runs the loop as long as it can.
SampleFairSpec == SampleStart /\ [][SampleNext]_vars /\ WF_vars(SampleNext)

\* The window's handlers, in any order.
GuiStart == GuiIdle /\ SampleIdle /\ EngineIdle
GuiNext ==
    \/ TypeFunction /\ UNCHANGED <<sample_vars, engine_vars>>
    \/ TypeX /\ UNCHANGED <<sample_vars, engine_vars>>
    \/ OnAnalyze /\ UNCHANGED <<sample_vars, engine_vars>>
    \/ OnEvaluate /\ UNCHANGED <<sample_vars, engine_vars>>
    \/ OnPlot /\ UNCHANGED <<sample_vars, engine_vars>>
    \/ OnClear /\ UNCHANGED <<sample_vars, engine_vars>>
GuiSpec == GuiStart /\ [][GuiNext]_vars

\* ------------------------------------------------------------------ claims

\* C1: no x value returned by sample_function lies within 1e-2 of an
\* exclusion value that converts to a float.
C1_NoPointNearExclusion ==
    \A i \in 1..Len(xs) : \A j \in 1..Len(s_exceptions) :
        LET s == s_exceptions[j]
            D == GridDen(n_points)
        IN  s.im = 0 => TolInv * Abs(xs[i] * s.den - s.num * D) >= D * s.den

\* C1 witness: a returned run over x + 1 that kept some steps and skipped
\* others, with an exclusion that converts and one that does not.
C1_Witness ==
    /\ pc = "done"
    /\ s_expr = "x + 1"
    /\ Len(xs) > 0
    /\ Len(xs) < Steps(n_points) + 1
    /\ \E j \in 1..Len(s_exceptions) : s_exceptions[j].im = 0
    /\ \E j \in 1..Len(s_exceptions) : s_exceptions[j].im # 0

\* C2: sample_function returns for every interval and point count.
C2_Terminates == <>(pc = "done")

\* C3: xs and ys have the same length, xs stays within [x_min, x_max] in
\* ascending order (strictly, in what is returned), and each ys[i] is the
\* finite real value of the expression at xs[i]: no dropped step leaves a
\* placeholder.
C3_WellFormed ==
    /\ Len(xs) = Len(ys)
    /\ \A i \in 1..Len(xs) :
          /\ x_min * Steps(n_points) <= xs[i]
          /\ xs[i] <= x_max * Steps(n_points)
          /\ i > 1 => xs[i - 1] <= xs[i]
          /\ (i > 1 /\ pc = "done") => xs[i - 1] < xs[i]
          /\ Eval(s_expr, Fin(xs[i], GridDen(n_points))).k = "real"
          /\ ys[i] = [k |-> "fin", v |-> Eval(s_expr, Fin(xs[i], GridDen(n_points))).v]

\* C3 witness: a returned run that kept two or more points and dropped a
\* step whose value is real but not finite.
C3_Witness ==
    /\ pc = "done"
    /\ s_expr = "exp(1000000*x)"
    /\ s_exceptions = <<>>
    /\ Len(xs) >= 2
    /\ Len(xs) < Steps(n_points) + 1

RangeFallback == f_call = "compute_range" /\ "function_range" \in f_fail
\* the values of the samples that neither raise nor are non-finite
FiniteValues(e) ==
    {Eval(e, Fin(w, 1)).v : w \in {u \in RangeLo..RangeHi :
                                     /\ (u - RangeLo) % RangeStep = 0
                                     /\ Eval(e, Fin(u, 1)).k = "real"}}
IsMin(m, S) == m \in S /\ \A o \in S : m <= o
IsMax(m, S) == m \in S /\ \A o \in S : m >= o
\* r is v rounded to SigDigits significant digits
RoundedTo(r, v) ==
    LET d == Digits(Abs(v))
        p == IF d > SigDigits THEN Pow10(d - SigDigits) ELSE 1
    IN  Abs(r) % p = 0 /\ 2 * Abs(r - v) <= p

C5_FiniteOrError ==
    f_call = "evaluate_point" =>
        /\ ~f_ret.raised
        /\ \/ f_ret.numeric.k = "fin" /\ ~f_ret.err.some
           \/ f_ret.numeric = NoFloat /\ f_ret.err.some

\* C6: compute_domain returns its 4-tuple whatever sub-step fails, with an
\* empty result for a failed sub-step and the results of the others.
C6_DomainDegrades ==
    f_call = "compute_domain" =>
        /\ ~f_ret.raised
        /\ f_ret.exceptions =
              (IF {"den", "canon"} \cap f_fail # {} THEN {}
               ELSE Range(find_denominator_singularities(f_expr, {})))
        /\ f_ret.logs = (IF "logs" \in f_fail THEN <<>> ELSE find_log_constraints(f_expr))
        /\ f_ret.roots = (IF "roots" \in f_fail THEN <<>> ELSE find_even_root_problems(f_expr))

DomainReturned == f_call = "compute_domain" /\ ~f_ret.raised
HasClause(c) == \E i \in 1..Len(f_ret.desc.parts) : f_ret.desc.parts[i].clause = c
ListsExclusions ==
    \E i \in 1..Len(f_ret.desc.parts) :
        /\ f_ret.desc.parts[i].clause = "excepto x = "
        /\ f_ret.desc.parts[i].values = f_ret.exceptions
NothingExcluded == f_ret.exceptions = {} /\ f_ret.logs = <<>> /\ f_ret.roots = <<>>

\* C7 as stated: the description is the plain sentence exactly when nothing
\* is excluded or constrained, and otherwise always has the "except" clause
\* listing the exclusions, plus the log and root clauses when they apply.
C7_ExceptInEveryOtherCase ==
    DomainReturned =>
        /\ (f_ret.desc = PlainDesc) <=> NothingExcluded
        /\ ~NothingExcluded =>
              /\ ListsExclusions
              /\ HasClause(LogClause.clause) <=> (f_ret.logs # <<>>)
              /\ HasClause(RootClause.clause) <=> (f_ret.roots # <<>>)

\* C7 amended: the description is the plain sentence exactly when nothing is
\* excluded or constrained; otherwise it is the sentence followed by the
\* "except" clause listing the exclusions iff there is an exclusion, the log
\* clause iff there is a log constraint and the root clause iff there is an
\* even-root constraint.
C7_ClausesMatch ==
    DomainReturned =>
        /\ (f_ret.desc = PlainDesc) <=> NothingExcluded
        /\ ~NothingExcluded =>
              /\ f_ret.desc.head = "Dominio: todos los reales, "
              /\ HasClause(ExceptClause({}).clause) <=> (f_ret.exceptions # {})
              /\ f_ret.exceptions # {} => ListsExclusions
              /\ HasClause(LogClause.clause) <=> (f_ret.logs # <<>>)
              /\ HasClause(RootClause.clause) <=> (f_ret.roots # <<>>)

\* C7 witness: a description with constraints and no exclusion.
C7_Witness ==
    /\ DomainReturned
    /\ f_ret.exceptions = {}
    /\ f_ret.logs # <<>>
    /\ f_ret.roots # <<>>
    /\ Len(f_ret.desc.parts) = 2

\* the value evaluate_point gets for e at the point p
ValueAt(e, p) == float(Eval(e, p.x))

\* C8: the exclusions and the evaluated point the session holds, and those
\* the axes show, were computed for the expression they go with.
C8_SessionDataIsCurrent ==
    /\ parsed_expr # "None" =>
          /\ domain_exceptions = compute_domain(parsed_expr, {}).exceptions
          /\ x_eval_point.set => x_eval_point.y = ValueAt(parsed_expr, x_eval_point)
    /\ ax.curve # "None" =>
          /\ ax.vlines \subseteq compute_domain(ax.curve, {}).exceptions
          /\ ax.point.set => ax.point.y = ValueAt(ax.curve, ax.point)

\* C9: after a failed parse, and until a parse succeeds, on_evaluate and
\* on_plot set no evaluated point and draw no curve.
C9_ParseFailureBlocks ==
    parse_failed =>
        ~(last.handler \in {"on_evaluate", "on_plot"} /\ (last.curve \/ last.point))

\* C10: compute_intersections never raises, returns the solver's solutions
\* with zero imaginary part, and keeps the value at zero when only the
\* root solving fails.
C10_IntersectionsSeparate ==
    f_call = "compute_intersections" =>
        /\ ~f_ret.raised
        /\ f_fail = {} =>
              /\ \A i \in 1..Len(f_ret.real_roots) : f_ret.real_roots[i].im = 0
              /\ Range(f_ret.real_roots) = {s \in Range(solve(f_expr)) : s.im = 0}
        /\ f_fail = {"solve"} =>
              /\ f_ret.real_roots = <<>>
              /\ f_ret.y_at_0 = Eval(f_expr, Fin(0, 1))

=============================================================================
